---- MODULE Spec2Model ----
(***************************************************************************)
(* A model of the yodsl engine: the symbol environment (engine/env.py),    *)
(* the lowering loop with its export-rename pass (engine/transpile.py,     *)
(* engine/yovec/transpile.py) and the name mangler                         *)
(* (engine/optimize/mangle.py).                                            *)
(*                                                                         *)
(* Identifiers are sequences of one-character strings, so that prefix      *)
(* tests, substring replacement and decimal formatting are computed the    *)
(* way the Python code computes them.                                      *)
(***************************************************************************)
EXTENDS Integers, Sequences, FiniteSets, TLC

VARIABLES
    heap,       \* env.py: the Env objects and the dicts they point to
    snap,       \* history: contents of each Env object when it was produced
    parent,     \* history: the receiver each Env object was derived from
    last,       \* history: the last binding call and its outcome
    flavor,     \* which lowering loop runs: "yovec" | "old"
    env,        \* transpile.py: the environment threaded through the loop
    index,      \* transpile.py: the next register index
    children,   \* transpile.py: the emitted lines (variable leaves of each)
    exported,   \* transpile.py: the recorded (before, after) pairs
    status,     \* position of the compilation and the exception it raised
    letlog,     \* history: (ident, index, width) of each lowered let
    raw,        \* history: the emitted lines before export-rename
    margs,      \* mangle.py: the imported / exported arguments
    mangled,    \* mangle.py: the tree mangle_names returns
    pool,       \* mangle.py: a Pool object
    issued      \* history: the names Pool.replace generated, in order

vars == <<heap, snap, parent, last, flavor, env, index, children, exported,
          status, letlog, raw, margs, mangled, pool, issued>>

envVars == <<heap, snap, parent, last>>
loopVars == <<flavor, env, index, children, exported, status, letlog, raw>>
mangleVars == <<margs, mangled>>
poolVars == <<pool, issued>>

-----------------------------------------------------------------------------
(* Bounds *)

\* Env objects derived from the empty one in the environment machine.
MaxEnvs == 2
\* Statements of a compiled program.
MaxStmts == 4
\* Elements of a vector literal.
MaxWidth == 2
\* Largest register index drawn for the rename pass taken on its own.
MaxReg == 10
\* Letters of the mangler's alphabet (ascii_lowercase cut to its first letters).
NLetters == 2
\* Variable leaves of a tree handed to mangle_names taken on its own.
MaxLeaves == 3

-----------------------------------------------------------------------------
(* Strings and dicts, as Python computes them *)

DigitChars == <<"0", "1", "2", "3", "4", "5", "6", "7", "8", "9">>

RECURSIVE FormatInt(_)
\* '{}'.format(n) for a non-negative int: its decimal digits.
FormatInt(n) ==
    IF n < 10 THEN <<DigitChars[n + 1]>>
    ELSE FormatInt(n \div 10) \o <<DigitChars[(n % 10) + 1]>>

\* s.startswith(p)
StartsWith(s, p) == Len(p) <= Len(s) /\ SubSeq(s, 1, Len(p)) = p

RECURSIVE StrReplace(_, _, _)
\* s.replace(old, new): every non-overlapping occurrence, left to right.
StrReplace(s, old, new) ==
    IF Len(s) = 0 THEN <<>>
    ELSE IF StartsWith(s, old)
         THEN new \o StrReplace(SubSeq(s, Len(old) + 1, Len(s)), old, new)
         ELSE <<Head(s)>> \o StrReplace(Tail(s), old, new)

EmptyDict == <<>>

\* d[k] = v on a dict d
DictSet(d, k, v) == [x \in (DOMAIN d) \cup {k} |-> IF x = k THEN v ELSE d[x]]

\* d.values()
DictValues(d) == {d[k] : k \in DOMAIN d}

-----------------------------------------------------------------------------
(* engine/env.py *)

NumVar(i, number) == [type |-> "NumVar", index |-> i, value |-> number]
VecVar(i, vector) == [type |-> "VecVar", index |-> i, value |-> vector]
MatVar(i, matrix) == [type |-> "MatVar", index |-> i, value |-> matrix]

AsciiUppercase ==
    <<"A", "B", "C", "D", "E", "F", "G", "H", "I", "J", "K", "L", "M",
      "N", "O", "P", "Q", "R", "S", "T", "U", "V", "W", "X", "Y", "Z">>

\* A Python str of one character, and a (frozen)set of them, as set elements.
PyChar(c) == <<"str", c>>
PyFrozenset(S) == <<"frozenset", S>>

\* set(s) of a str s
CharSet(s) == {PyChar(s[i]) : i \in 1..Len(s)}

\* `key in container` where key is a set: set.__contains__ looks up
\* frozenset(key) among the elements.
SetInSet(key, container) == PyFrozenset(key) \in container

\* Env.__init__ : a fresh object with two fresh empty dicts.
EnvNew(h) ==
    [heap |-> [envs  |-> Append(h.envs, [variables |-> Len(h.dicts) + 1,
                                         aliases   |-> Len(h.dicts) + 2]),
               dicts |-> h.dicts \o <<EmptyDict, EmptyDict>>],
     ref  |-> Len(h.envs) + 1]

\* self.variables / self.aliases read through the heap
Variables(h, self) == h.dicts[h.envs[self].variables]
Aliases(h, self) == h.dicts[h.envs[self].aliases]

\* What an Env reference observes.
Contents(h, self) == [variables |-> Variables(h, self), aliases |-> Aliases(h, self)]

\* copy.deepcopy(self): a new object whose dicts are new copies.
DeepCopy(h, self) ==
    [heap |-> [envs  |-> Append(h.envs, [variables |-> Len(h.dicts) + 1,
                                         aliases   |-> Len(h.dicts) + 2]),
               dicts |-> h.dicts \o <<Variables(h, self), Aliases(h, self)>>],
     ref  |-> Len(h.envs) + 1]

\* raise YovecError(msg): nothing is returned, the heap is as it was.
Raise(h, msg) == [heap |-> h, ref |-> 0, exc |-> msg]

Returned(h, ref) == [heap |-> h, ref |-> ref, exc |-> "none"]

\* clone.variables[ident] = v
StoreVariable(h, clone, ident, v) ==
    [h EXCEPT !.dicts[h.envs[clone].variables] = DictSet(@, ident, v)]

\* clone.aliases[alias] = target
StoreAlias(h, clone, alias, target) ==
    [h EXCEPT !.dicts[h.envs[clone].aliases] = DictSet(@, alias, target)]

set_num(h, self, ident, i, num) ==
    IF ident \in DOMAIN Variables(h, self)
    THEN Raise(h, "cannot redefine existing variable")
    ELSE LET c == DeepCopy(h, self)
         IN  Returned(StoreVariable(c.heap, c.ref, ident, NumVar(i, num)), c.ref)

\* set_vec without its membership test: a second bind overwrites.
set_vec_overwrite(h, self, ident, i, vec) ==
    LET c == DeepCopy(h, self)
    IN  Returned(StoreVariable(c.heap, c.ref, ident, VecVar(i, vec)), c.ref)

set_vec(h, self, ident, i, vec) ==
    IF ident \in DOMAIN Variables(h, self)
    THEN Raise(h, "cannot redefine existing variable")
    ELSE LET c == DeepCopy(h, self)
         IN  Returned(StoreVariable(c.heap, c.ref, ident, VecVar(i, vec)), c.ref)

set_mat(h, self, ident, i, mat) ==
    IF ident \in DOMAIN Variables(h, self)
    THEN Raise(h, "cannot redefine existing variable")
    ELSE LET c == DeepCopy(h, self)
         IN  Returned(StoreVariable(c.heap, c.ref, ident, MatVar(i, mat)), c.ref)

\* set_alias writing into self instead of a deep copy.
set_alias_inplace(h, self, alias, target) ==
    IF alias \in DOMAIN Aliases(h, self)
    THEN Raise(h, "cannot redefine existing alias")
    ELSE IF target \in DictValues(Aliases(h, self))
    THEN Raise(h, "conflicting alias target")
    ELSE Returned(StoreAlias(h, self, alias, target), self)

set_alias(h, self, alias, target) ==
    IF alias \in DOMAIN Aliases(h, self)
    THEN Raise(h, "cannot redefine existing alias")
    ELSE IF target \in DictValues(Aliases(h, self))
    THEN Raise(h, "conflicting alias target")
    ELSE IF /\ SetInSet(CharSet(alias),
                        CharSet(AsciiUppercase \o <<"_">>))
            /\ alias \notin DOMAIN Variables(h, self)
    THEN Raise(h, "cannot export undefined variable")
    ELSE LET c == DeepCopy(h, self)
         IN  Returned(StoreAlias(c.heap, c.ref, alias, target), c.ref)

-----------------------------------------------------------------------------
(* The environment the lowering loops thread: Env(overwrite=False) *)

\* The marker True stored for imports and exports.
PyTrue == [t |-> "True"]
\* The pair (index, sv) stored for a let.
PyPair(i, sv) == [t |-> "tuple", index |-> i, sv |-> sv]

\* env.update(key, value) with overwrite=False: KeyError on a bound key,
\* otherwise a new environment with the entry added.
EnvUpdate(e, key, value) ==
    IF key \in DOMAIN e
    THEN [env |-> e, exc |-> "KeyError"]
    ELSE [env |-> DictSet(e, key, value), exc |-> "none"]

\* Whether env[key] raises KeyError.
EnvMissing(e, key) == key \notin DOMAIN e

-----------------------------------------------------------------------------
(* SimpleVector, as far as the emitted variable leaves go: a vector is the *)
(* sequence of its elements, an element the sequence of variable leaves    *)
(* its expression reads.                                                   *)

\* The emitted name of element k of register i.
VarName(i, k) == <<"v">> \o FormatInt(i) \o <<"e">> \o FormatInt(k)

\* SimpleVector(snums) of n number literals.
LiteralVector(n) == [k \in 1..n |-> <<>>]

\* sv.assign(index): one assignment per element, in ascending element order
\* (its left-hand variable, then the leaves of its expression), and the
\* residual vector that reads the register back.
Assign(sv, i) ==
    [assignments |-> [k \in 1..Len(sv) |-> <<VarName(i, k - 1)>> \o sv[k]],
     sv          |-> [k \in 1..Len(sv) |-> <<VarName(i, k - 1)>>]]

RECURSIVE Flatten(_)
\* The variable leaves of a list of subtrees, in depth-first order.
Flatten(ss) == IF Len(ss) = 0 THEN <<>> ELSE Head(ss) \o Flatten(Tail(ss))

-----------------------------------------------------------------------------
(* engine/transpile.py *)

EXPORT_PREFIX == <<"#", "e", "x", "p", "o", "r", "t", "e", "d", ":">>

_transpile_import(e, ident) ==
    LET u == EnvUpdate(e, ident, PyTrue)
    IN  IF u.exc = "KeyError"
        THEN [env |-> e, exc |-> "YovecError: failed to import variable"]
        ELSE [env |-> u.env, exc |-> "none"]

_transpile_export(e, before, after) ==
    IF EnvMissing(e, before)
    THEN [env |-> e, pair |-> <<>>,
          exc |-> "YovecError: failed to export variable: variable not found"]
    ELSE LET u == EnvUpdate(e, EXPORT_PREFIX \o before, PyTrue)
         IN  IF u.exc = "KeyError"
             THEN [env |-> e, pair |-> <<>>,
                   exc |-> "YovecError: failed to export variable"]
             ELSE [env |-> u.env, pair |-> <<before, after>>, exc |-> "none"]

\* The vexpr kinds 'vector' (of number literals) and 'variable'.
_transpile_vexpr(e, vexpr) ==
    IF vexpr.kind = "variable"
    THEN IF EnvMissing(e, vexpr.ident) THEN [sv |-> <<>>, exc |-> "KeyError"]
         ELSE IF e[vexpr.ident].t # "tuple" THEN [sv |-> <<>>, exc |-> "TypeError"]
         ELSE [sv |-> e[vexpr.ident].sv, exc |-> "none"]
    ELSE [sv |-> LiteralVector(vexpr.n), exc |-> "none"]

\* _transpile_vec_let returning index + len(sv) instead of index + 1.
_transpile_vec_let_by_width(e, i, ident, vexpr) ==
    LET x == _transpile_vexpr(e, vexpr)
        a == Assign(x.sv, i)
        u == EnvUpdate(e, ident, PyPair(i, a.sv))
    IN  IF x.exc # "none"
        THEN [env |-> e, index |-> i, line |-> <<>>, exc |-> x.exc]
        ELSE IF u.exc = "KeyError"
        THEN [env |-> e, index |-> i, line |-> <<>>,
              exc |-> "YovecError: failed to assign variable"]
        ELSE [env |-> u.env, index |-> i + Len(x.sv),
              line |-> Flatten(a.assignments), exc |-> "none"]

_transpile_vec_let(e, i, ident, vexpr) ==
    LET x == _transpile_vexpr(e, vexpr)
        a == Assign(x.sv, i)
        u == EnvUpdate(e, ident, PyPair(i, a.sv))
    IN  IF x.exc # "none"
        THEN [env |-> e, index |-> i, line |-> <<>>, exc |-> x.exc]
        ELSE IF u.exc = "KeyError"
        THEN [env |-> e, index |-> i, line |-> <<>>,
              exc |-> "YovecError: failed to assign variable"]
        ELSE [env |-> u.env, index |-> i + 1,
              line |-> Flatten(a.assignments), exc |-> "none"]

RECURSIVE RenameLeafNoSeparator(_, _, _, _)
\* The rename of one leaf with the prefix 'v{}' instead of 'v{}e'.
RenameLeafNoSeparator(e, value, exp, i) ==
    IF i > Len(exp) THEN [value |-> value, exc |-> "none"]
    ELSE IF EnvMissing(e, exp[i][1]) THEN [value |-> value, exc |-> "KeyError"]
    ELSE IF e[exp[i][1]].t # "tuple" THEN [value |-> value, exc |-> "TypeError"]
    ELSE LET prefix == <<"v">> \o FormatInt(e[exp[i][1]].index)
         IN  IF StartsWith(value, prefix)
             THEN [value |-> StrReplace(value, prefix, exp[i][2]), exc |-> "none"]
             ELSE RenameLeafNoSeparator(e, value, exp, i + 1)

RECURSIVE RenameLeaf(_, _, _, _)
\* _rename_exports on a 'variable' node: the export pairs from the i-th on.
RenameLeaf(e, value, exp, i) ==
    IF i > Len(exp) THEN [value |-> value, exc |-> "none"]
    ELSE IF EnvMissing(e, exp[i][1]) THEN [value |-> value, exc |-> "KeyError"]
    ELSE IF e[exp[i][1]].t # "tuple" THEN [value |-> value, exc |-> "TypeError"]
    ELSE LET prefix == <<"v">> \o FormatInt(e[exp[i][1]].index) \o <<"e">>
         IN  IF StartsWith(value, prefix)
             THEN [value |-> StrReplace(value, prefix, exp[i][2]), exc |-> "none"]
             ELSE RenameLeaf(e, value, exp, i + 1)

RECURSIVE RenameLeaves(_, _, _)
\* _rename_exports over the leaves of one subtree, in order, in place: the
\* leaves before a raising one stay renamed.
RenameLeaves(e, leaves, exp) ==
    IF Len(leaves) = 0 THEN [leaves |-> <<>>, exc |-> "none"]
    ELSE LET r == RenameLeaf(e, Head(leaves), exp, 1)
         IN  IF r.exc # "none" THEN [leaves |-> leaves, exc |-> r.exc]
             ELSE LET rest == RenameLeaves(e, Tail(leaves), exp)
                  IN  [leaves |-> <<r.value>> \o rest.leaves, exc |-> rest.exc]

RECURSIVE _rename_exports(_, _, _)
\* _rename_exports over the lines of a program node.
_rename_exports(e, lines, exp) ==
    IF Len(lines) = 0 THEN [lines |-> <<>>, exc |-> "none"]
    ELSE LET r == RenameLeaves(e, Head(lines), exp)
         IN  IF r.exc # "none"
             THEN [lines |-> <<r.leaves>> \o Tail(lines), exc |-> r.exc]
             ELSE LET rest == _rename_exports(e, Tail(lines), exp)
                  IN  [lines |-> <<r.leaves>> \o rest.lines, exc |-> rest.exc]

-----------------------------------------------------------------------------
(* engine/yovec/transpile.py: the older loop *)

\* env.update raises KeyError itself; nothing wraps it.
old_transpile_import(e, ident) == EnvUpdate(e, ident, PyTrue)

\* _ = env[ident]; the environment is not threaded back.
old_transpile_export(e, ident) ==
    IF EnvMissing(e, ident) THEN [env |-> e, exc |-> "KeyError"]
    ELSE [env |-> e, exc |-> "none"]

old_transpile_let(e, i, ident, vexpr) ==
    LET x == _transpile_vexpr(e, vexpr)
        a == Assign(x.sv, i)
        u == EnvUpdate(e, ident, PyPair(i, a.sv))
    IN  IF x.exc # "none"
        THEN [env |-> e, index |-> i, line |-> <<>>, exc |-> x.exc]
        ELSE IF u.exc = "KeyError"
        THEN [env |-> e, index |-> i, line |-> <<>>, exc |-> "KeyError"]
        ELSE [env |-> u.env, index |-> i + 1,
              line |-> Flatten(a.assignments), exc |-> "none"]

-----------------------------------------------------------------------------
(* engine/optimize/mangle.py *)

AsciiLowercase ==
    <<"a", "b", "c", "d", "e", "f", "g", "h", "i", "j", "k", "l", "m",
      "n", "o", "p", "q", "r", "s", "t", "u", "v", "w", "x", "y", "z">>

\* The alphabet the pool draws from.
Letters == SubSeq(AsciiLowercase, 1, NLetters)

RECURSIVE Product(_)
\* [''.join(x) for x in product(letters, repeat=n)]: the first position
\* varies slowest.
Product(n) ==
    IF n = 0 THEN << <<>> >>
    ELSE LET P == Product(n - 1)
             m == Len(P)
         IN  [i \in 1..(Len(Letters) * m) |->
                 <<Letters[((i - 1) \div m) + 1]>> \o P[((i - 1) % m) + 1]]

\* Pool.__init__
PoolNew(excluded) ==
    [excluded |-> excluded, replaced |-> EmptyDict, pool |-> <<>>, size |-> 1]

\* Pool.gen refilling with `self.size += 2`: every other length is skipped.
PoolGenSkipLength(p) ==
    LET q == IF Len(p.pool) = 0
             THEN [p EXCEPT !.pool = Product(p.size), !.size = p.size + 2]
             ELSE p
    IN  [pool |-> [q EXCEPT !.pool = SubSeq(q.pool, 1, Len(q.pool) - 1)],
         name |-> q.pool[Len(q.pool)]]

\* Pool.gen: refill when empty, then pop the last name.
PoolGen(p) ==
    LET q == IF Len(p.pool) = 0
             THEN [p EXCEPT !.pool = Product(p.size), !.size = p.size + 1]
             ELSE p
    IN  [pool |-> [q EXCEPT !.pool = SubSeq(q.pool, 1, Len(q.pool) - 1)],
         name |-> q.pool[Len(q.pool)]]

RECURSIVE PoolFresh(_)
\* The `while True` loop of Pool.replace: generate until not excluded.
PoolFresh(p) ==
    LET g == PoolGen(p)
    IN  IF g.name \in p.excluded THEN PoolFresh(g.pool) ELSE g

\* Pool.replace handing out generated names without the exclusion test.
PoolReplaceNoSkip(p, name) ==
    IF name \in p.excluded THEN [pool |-> p, name |-> name, fresh |-> FALSE]
    ELSE IF name \in DOMAIN p.replaced
    THEN [pool |-> p, name |-> p.replaced[name], fresh |-> FALSE]
    ELSE LET g == PoolGen(p)
         IN  [pool  |-> [g.pool EXCEPT !.replaced = DictSet(@, name, g.name)],
              name  |-> g.name,
              fresh |-> TRUE]

\* Pool.replace
PoolReplace(p, name) ==
    IF name \in p.excluded THEN [pool |-> p, name |-> name, fresh |-> FALSE]
    ELSE IF name \in DOMAIN p.replaced
    THEN [pool |-> p, name |-> p.replaced[name], fresh |-> FALSE]
    ELSE LET g == PoolFresh(p)
         IN  [pool  |-> [g.pool EXCEPT !.replaced = DictSet(@, name, g.name)],
              name  |-> g.name,
              fresh |-> TRUE]

RECURSIVE ReplaceAll(_, _)
\* The loop of mangle_names over the variable nodes, in find order.
ReplaceAll(p, leaves) ==
    IF Len(leaves) = 0 THEN <<>>
    ELSE LET r == PoolReplace(p, Head(leaves))
         IN  <<r.name>> \o ReplaceAll(r.pool, Tail(leaves))

RECURSIVE Reshape(_, _)
\* The leaves put back at their places in a tree shaped like lines.
Reshape(leaves, lines) ==
    IF Len(lines) = 0 THEN <<>>
    ELSE <<SubSeq(leaves, 1, Len(Head(lines)))>>
         \o Reshape(SubSeq(leaves, Len(Head(lines)) + 1, Len(leaves)), Tail(lines))

\* mangle_names(program, imported, exported): a renamed clone.
mangle_names(program, imported, exported_names) ==
    Reshape(ReplaceAll(PoolNew(imported \cup exported_names), Flatten(program)),
            program)

-----------------------------------------------------------------------------
(* Idle values of the variables a specification does not use *)

IdleHeap == [envs |-> <<>>, dicts |-> <<>>]
IdleLast == [op |-> "none", self |-> 0, ident |-> <<>>, target |-> <<>>,
             exc |-> "none", ref |-> 0, pre |-> <<>>]
IdleStatus == [pc |-> "idle", exc |-> "none", at |-> "none"]
IdleArgs == [imported |-> {}, exported |-> {}]
IdlePool == [excluded |-> {}, replaced |-> <<>>, pool |-> <<>>, size |-> 0]

EnvIdle ==
    /\ heap = IdleHeap /\ snap = <<>> /\ parent = <<>> /\ last = IdleLast

LoopIdle ==
    /\ flavor = "none" /\ env = EmptyDict /\ index = 0 /\ children = <<>>
    /\ exported = <<>> /\ status = IdleStatus /\ letlog = <<>> /\ raw = <<>>

MangleIdle == margs = IdleArgs /\ mangled = <<>>

PoolIdle == pool = IdlePool /\ issued = <<>>

-----------------------------------------------------------------------------
(* The environment machine: binding calls on any Env produced so far *)

\* Identifiers bound and aliased: one lowercase, one export-style.
EnvIdents == {<<"x">>, <<"O", "U", "T">>}
\* Alias targets.
EnvTargets == {<<"t">>, <<"u">>}
\* Register indices passed by the caller.
EnvIndexes == {0, 1}

InitEnv ==
    /\ heap = EnvNew(IdleHeap).heap
    /\ snap = <<Contents(EnvNew(IdleHeap).heap, 1)>>
    /\ parent = <<0>>
    /\ last = IdleLast
    /\ LoopIdle /\ MangleIdle /\ PoolIdle

\* The caller's view after a binding call r on receiver self: the heap the
\* call left, a snapshot of any object it produced, and the call's outcome.
Called(op, self, ident, target, r) ==
    /\ heap' = r.heap
    /\ snap' = IF r.ref > Len(heap.envs)
               THEN Append(snap, Contents(r.heap, r.ref)) ELSE snap
    /\ parent' = IF r.ref > Len(heap.envs) THEN Append(parent, self) ELSE parent
    /\ last' = [op |-> op, self |-> self, ident |-> ident, target |-> target,
                exc |-> r.exc, ref |-> r.ref, pre |-> Contents(heap, self)]
    /\ UNCHANGED <<loopVars, mangleVars, poolVars>>

\* A caller holds every Env produced so far and may call on any of them.
CanCall == Len(heap.envs) <= MaxEnvs

SetNum ==
    /\ CanCall
    /\ \E self \in 1..Len(heap.envs), ident \in EnvIdents, i \in EnvIndexes :
          Called("set_num", self, ident, <<>>, set_num(heap, self, ident, i, "num"))

SetVec ==
    /\ CanCall
    /\ \E self \in 1..Len(heap.envs), ident \in EnvIdents, i \in EnvIndexes :
          Called("set_vec", self, ident, <<>>, set_vec(heap, self, ident, i, "vec"))

SetMat ==
    /\ CanCall
    /\ \E self \in 1..Len(heap.envs), ident \in EnvIdents, i \in EnvIndexes :
          Called("set_mat", self, ident, <<>>, set_mat(heap, self, ident, i, "mat"))

SetAlias ==
    /\ CanCall
    /\ \E self \in 1..Len(heap.envs), alias \in EnvIdents, target \in EnvTargets :
          Called("set_alias", self, alias, target, set_alias(heap, self, alias, target))

NextEnv == SetNum \/ SetVec \/ SetMat \/ SetAlias

SpecEnv == InitEnv /\ [][NextEnv]_vars

-----------------------------------------------------------------------------
(* Claims about the environment machine (checked under SpecEnv) *)

IsBindCall == last.op \in {"set_num", "set_vec", "set_mat"}

RECURSIVE IsAncestor(_, _)
\* p is the Env e was derived from, or an ancestor of it.
IsAncestor(p, e) ==
    /\ parent[e] # 0
    /\ (parent[e] = p \/ IsAncestor(p, parent[e]))

\* C2: every Env binding operation (set_num, set_vec, set_mat, set_alias)
\* leaves the receiver unchanged, whether it succeeds or fails: every Env
\* produced so far still has exactly the variables and aliases it had when
\* it was produced; a successful call returns a new object that is the
\* receiver's contents plus the one new entry, and a failed call returns
\* nothing.
C2_ReceiverUnchanged ==
    /\ Len(snap) = Len(heap.envs)
    /\ \A e \in 1..Len(heap.envs) : Contents(heap, e) = snap[e]
    /\ (last.op # "none" /\ last.exc # "none") => last.ref = 0
    /\ (last.op # "none" /\ last.exc = "none") =>
          /\ last.ref = Len(heap.envs)
          /\ last.ref # last.self
          /\ snap[last.self] = last.pre
          /\ IF last.op = "set_alias"
             THEN /\ last.ident \notin DOMAIN last.pre.aliases
                  /\ snap[last.ref].variables = last.pre.variables
                  /\ snap[last.ref].aliases =
                        DictSet(last.pre.aliases, last.ident, last.target)
             ELSE /\ last.ident \notin DOMAIN last.pre.variables
                  /\ snap[last.ref].aliases = last.pre.aliases
                  /\ DOMAIN snap[last.ref].variables =
                        (DOMAIN last.pre.variables) \cup {last.ident}
                  /\ \A k \in DOMAIN last.pre.variables :
                        snap[last.ref].variables[k] = last.pre.variables[k]

\* C2 witness: an alias was bound on an Env that has a parent and a
\* grandparent, both still held by the caller.
C2_Witness ==
    /\ Len(heap.envs) = 3
    /\ last.op = "set_alias" /\ last.exc = "none" /\ last.ref = 3
    /\ parent[3] = 2 /\ parent[2] = 1
    /\ DOMAIN snap[2].variables # {}

\* C3: binding an identifier that is already bound fails with the
\* redefinition error whatever the kinds of the old and the new binding,
\* and no Env holds for an identifier a binding other than the one the
\* identifier received at its first successful bind on the way from the
\* empty Env.
C3_FirstBindingKept ==
    /\ \A e \in 1..Len(heap.envs) : \A p \in 1..Len(heap.envs) :
          IsAncestor(p, e) =>
             \A k \in DOMAIN Variables(heap, p) :
                /\ k \in DOMAIN Variables(heap, e)
                /\ Variables(heap, e)[k] = Variables(heap, p)[k]
    /\ (IsBindCall /\ last.ident \in DOMAIN last.pre.variables) =>
          /\ last.exc = "cannot redefine existing variable"
          /\ last.ref = 0

\* C3 witness: a matrix bind was refused on an identifier bound as a number.
C3_Witness ==
    /\ last.op = "set_mat"
    /\ last.exc = "cannot redefine existing variable"
    /\ last.ident \in DOMAIN last.pre.variables
    /\ last.pre.variables[last.ident].type = "NumVar"

\* An identifier made only of uppercase letters and underscores.
IsExportStyle(s) ==
    \A i \in 1..Len(s) :
        s[i] \in {AsciiUppercase[j] : j \in 1..Len(AsciiUppercase)} \cup {"_"}

\* C7: set_alias(alias, target) fails whenever alias is an export-style
\* identifier that is not a key of the receiver's variables, returning no
\* new Env; the failure is ExportOfUndefinedVariable when the two earlier
\* checks (alias already present, target already taken) pass.
C7_ExportStyleAliasOfUndefinedFails ==
    (/\ last.op = "set_alias"
     /\ IsExportStyle(last.ident)
     /\ last.ident \notin DOMAIN last.pre.variables) =>
        /\ last.exc # "none"
        /\ last.ref = 0
        /\ (/\ last.ident \notin DOMAIN last.pre.aliases
            /\ last.target \notin DictValues(last.pre.aliases)) =>
               last.exc = "cannot export undefined variable"

-----------------------------------------------------------------------------
(* The lowering loops: one statement of the input program per step *)

Idents == {<<"x">>, <<"y">>}
Afters == {<<"O">>, <<"P">>}

\* The expressions a let binds: a vector literal or a variable reference.
Vexprs ==
    {[kind |-> "vector", n |-> n, ident |-> <<>>] : n \in 1..MaxWidth}
    \cup {[kind |-> "variable", n |-> 0, ident |-> id] : id \in Idents}

Running(f) == flavor = f /\ status.pc = "loop" /\ status.n < MaxStmts

\* The loop went on to its next line.
Continue == [status EXCEPT !.n = @ + 1]
\* An exception left the loop: the compilation is over.
Raised(exc, at) == [pc |-> "raised", exc |-> exc, at |-> at, n |-> status.n + 1]

InitLoop ==
    /\ flavor \in {"yovec", "old"}
    /\ env = EmptyDict
    /\ index = 0
    /\ children = <<>>
    /\ exported = <<>>
    /\ status = [pc |-> "loop", exc |-> "none", at |-> "none", n |-> 0]
    /\ letlog = <<>>
    /\ raw = <<>>
    /\ EnvIdle /\ MangleIdle /\ PoolIdle

Import ==
    /\ Running("yovec")
    /\ \E ident \in Idents :
          LET r == _transpile_import(env, ident)
          IN  /\ env' = r.env
              /\ status' = IF r.exc = "none" THEN Continue ELSE Raised(r.exc, "import")
    /\ UNCHANGED <<flavor, index, children, exported, letlog, raw>>
    /\ UNCHANGED <<envVars, mangleVars, poolVars>>

Export ==
    /\ Running("yovec")
    /\ \E before \in Idents, after \in Afters :
          LET r == _transpile_export(env, before, after)
          IN  /\ env' = r.env
              /\ exported' = IF r.exc = "none" THEN Append(exported, r.pair)
                             ELSE exported
              /\ status' = IF r.exc = "none" THEN Continue ELSE Raised(r.exc, "export")
    /\ UNCHANGED <<flavor, index, children, letlog, raw>>
    /\ UNCHANGED <<envVars, mangleVars, poolVars>>

VecLet ==
    /\ Running("yovec")
    /\ \E ident \in Idents, vexpr \in Vexprs :
          LET r == _transpile_vec_let(env, index, ident, vexpr)
          IN  /\ env' = r.env
              /\ index' = r.index
              /\ children' = IF r.exc = "none" THEN Append(children, r.line)
                             ELSE children
              /\ letlog' = IF r.exc = "none"
                           THEN Append(letlog, [ident |-> ident, index |-> index,
                                                line |-> r.line])
                           ELSE letlog
              /\ status' = IF r.exc = "none" THEN Continue ELSE Raised(r.exc, "vec_let")
    /\ UNCHANGED <<flavor, exported, raw>>
    /\ UNCHANGED <<envVars, mangleVars, poolVars>>

Comment ==
    /\ Running("yovec")
    /\ status' = Continue
    /\ UNCHANGED <<flavor, env, index, children, exported, letlog, raw>>
    /\ UNCHANGED <<envVars, mangleVars, poolVars>>

UnknownKind ==
    /\ Running("yovec")
    /\ status' = Raised("AssertionError", "line")
    /\ UNCHANGED <<flavor, env, index, children, exported, letlog, raw>>
    /\ UNCHANGED <<envVars, mangleVars, poolVars>>

\* The end of the program: _rename_exports, then the return.
Return ==
    /\ flavor = "yovec" /\ status.pc = "loop"
    /\ LET r == _rename_exports(env, children, exported)
       IN  /\ raw' = children
           /\ children' = r.lines
           /\ status' = IF r.exc = "none"
                        THEN [status EXCEPT !.pc = "returned"]
                        ELSE [pc |-> "raised", exc |-> r.exc, at |-> "rename",
                              n |-> status.n]
    /\ UNCHANGED <<flavor, env, index, exported, letlog>>
    /\ UNCHANGED <<envVars, mangleVars, poolVars>>

\* The imported identifiers of the program.
ImportedNames ==
    {k \in DOMAIN env : env[k].t = "True" /\ ~StartsWith(k, EXPORT_PREFIX)}

\* The after-names of the program's exports.
ExportedNames == {exported[i][2] : i \in 1..Len(exported)}

\* The pipeline's last stage: mangle_names on the returned program, with
\* the imported names and the export after-names kept stable.
Mangle ==
    /\ flavor = "yovec" /\ status.pc = "returned"
    /\ margs' = [imported |-> ImportedNames, exported |-> ExportedNames]
    /\ mangled' = mangle_names(children, ImportedNames, ExportedNames)
    /\ status' = [status EXCEPT !.pc = "mangled"]
    /\ UNCHANGED <<flavor, env, index, children, exported, letlog, raw>>
    /\ UNCHANGED <<envVars, poolVars>>

OldImport ==
    /\ Running("old")
    /\ \E ident \in Idents :
          LET r == old_transpile_import(env, ident)
          IN  /\ env' = r.env
              /\ status' = IF r.exc = "none" THEN Continue ELSE Raised(r.exc, "import")
    /\ UNCHANGED <<flavor, index, children, exported, letlog, raw>>
    /\ UNCHANGED <<envVars, mangleVars, poolVars>>

OldExport ==
    /\ Running("old")
    /\ \E ident \in Idents :
          LET r == old_transpile_export(env, ident)
          IN  status' = IF r.exc = "none" THEN Continue ELSE Raised(r.exc, "export")
    /\ UNCHANGED <<flavor, env, index, children, exported, letlog, raw>>
    /\ UNCHANGED <<envVars, mangleVars, poolVars>>

OldLet ==
    /\ Running("old")
    /\ \E ident \in Idents, vexpr \in Vexprs :
          LET r == old_transpile_let(env, index, ident, vexpr)
          IN  /\ env' = r.env
              /\ index' = r.index
              /\ children' = IF r.exc = "none" THEN Append(children, r.line)
                             ELSE children
              /\ letlog' = IF r.exc = "none"
                           THEN Append(letlog, [ident |-> ident, index |-> index,
                                                line |-> r.line])
                           ELSE letlog
              /\ status' = IF r.exc = "none" THEN Continue ELSE Raised(r.exc, "let")
    /\ UNCHANGED <<flavor, exported, raw>>
    /\ UNCHANGED <<envVars, mangleVars, poolVars>>

\* Any other kind, comments included, is a ValueError in the older loop.
OldUnknownKind ==
    /\ Running("old")
    /\ status' = Raised("ValueError", "line")
    /\ UNCHANGED <<flavor, env, index, children, exported, letlog, raw>>
    /\ UNCHANGED <<envVars, mangleVars, poolVars>>

OldReturn ==
    /\ flavor = "old" /\ status.pc = "loop"
    /\ raw' = children
    /\ status' = [status EXCEPT !.pc = "returned"]
    /\ UNCHANGED <<flavor, env, index, children, exported, letlog>>
    /\ UNCHANGED <<envVars, mangleVars, poolVars>>

Next ==
    \/ Import \/ Export \/ VecLet \/ Comment \/ UnknownKind \/ Return \/ Mangle
    \/ OldImport \/ OldExport \/ OldLet \/ OldUnknownKind \/ OldReturn

Spec == InitLoop /\ [][Next]_vars

-----------------------------------------------------------------------------
(* Claims about the lowering loops and the pipeline (checked under Spec) *)

\* C1: the k-th let in declaration order (k from 0) is assigned register
\* index k, in both loops: the index starts at 0 and grows by one per let
\* whatever the width of the bound value, import, export and comment
\* statements never change it, and the k-th emitted line assigns the
\* elements of register k.
C1_RegisterIndexIsLetPosition ==
    /\ index = Len(letlog)
    /\ \A k \in 1..Len(letlog) :
          /\ letlog[k].index = k - 1
          /\ letlog[k].line[1] = VarName(k - 1, 0)
          /\ env[letlog[k].ident].index = k - 1
    /\ status.pc \in {"loop", "raised"} => Len(children) = Len(letlog)

\* C1 witness: four statements were compiled, two of them lets, the first
\* binding a two-element vector, with an export among the others.
C1_Witness ==
    /\ flavor = "yovec" /\ status.pc = "loop" /\ status.n = 4
    /\ Len(letlog) = 2 /\ Len(exported) = 1
    /\ letlog[1].line = <<VarName(0, 0), VarName(0, 1)>>
    /\ letlog[2].index = 1

\* C5: exported identifiers survive the whole pipeline: with mangle_names
\* given the export after-names as its exported set, every identifier that
\* export-rename produced is still that identifier in the final output.
C5_ExportedNamesSurviveMangling ==
    status.pc = "mangled" =>
        \A l \in 1..Len(children) : \A j \in 1..Len(children[l]) :
            raw[l][j] # children[l][j] => mangled[l][j] = children[l][j]

\* C6: once one export maps to after-name T, a later export of another
\* before-name to the same T is rejected: no compiled program has two
\* export pairs with the same after-name.
C6_SharedAfterNameRejected ==
    (flavor = "yovec" /\ status.pc \in {"returned", "mangled"}) =>
        \A i \in 1..Len(exported) : \A j \in 1..Len(exported) :
            i # j => exported[i][2] # exported[j][2]

\* C10: an export accepted by _transpile_export (its before-name bound at
\* that point, by a let or by an import, and exported once) never makes the
\* rename pass raise.
C10_RenameNeverRaises ==
    ~(status.pc = "raised" /\ status.at = "rename")

-----------------------------------------------------------------------------
(* The rename pass on its own: any registers, export lists and trees *)

\* Register indices: the first two and a two-digit one.
Regs == {0, 1, MaxReg}

\* The names of emitted variable leaves, and an imported name.
RenameLeafNames ==
    {VarName(r, k) : r \in Regs, k \in 0..(MaxWidth - 1)} \cup {<<"A">>}

\* Export lists: up to two pairs, each before-name once.
ExportLists ==
    {<<>>}
    \cup {<<<<b, a>>>> : b \in Idents, a \in Afters}
    \cup {<<<<b1, a1>>, <<b2, a2>>>> :
             b1 \in Idents, b2 \in Idents, a1 \in Afters, a2 \in Afters}

\* The environment at the end of a program that let (or imported) the two
\* identifiers and exported those of exp; bindings of other identifiers,
\* which the pass does not read, are left out.
RenameEnv(vx, vy, exp) ==
    [k \in {<<"x">>, <<"y">>} \cup {EXPORT_PREFIX \o exp[i][1] : i \in 1..Len(exp)} |->
        IF k = <<"x">> THEN vx ELSE IF k = <<"y">> THEN vy ELSE PyTrue]

InitRename ==
    /\ flavor = "yovec"
    /\ \E rx \in Regs, ry \in Regs \cup {-1}, exp \in ExportLists :
          /\ rx # ry
          /\ Len(exp) = 2 => exp[1][1] # exp[2][1]
          /\ exported = exp
          /\ env = RenameEnv(PyPair(rx, Assign(LiteralVector(MaxWidth), rx).sv),
                             IF ry = -1 THEN PyTrue
                             ELSE PyPair(ry, Assign(LiteralVector(MaxWidth), ry).sv),
                             exp)
    /\ index = MaxReg + 1
    /\ \E l1 \in RenameLeafNames, l2 \in RenameLeafNames \cup {<<>>} :
          children = IF l2 = <<>> THEN <<<<l1>>>> ELSE <<<<l1, l2>>>>
    /\ status = [pc |-> "loop", exc |-> "none", at |-> "none", n |-> 0]
    /\ letlog = <<>>
    /\ raw = <<>>
    /\ EnvIdle /\ MangleIdle /\ PoolIdle

NextRename == Return

SpecRename == InitRename /\ [][NextRename]_vars

\* The export pairs whose before-name is bound to register r.
PairsOfReg(r) ==
    {i \in 1..Len(exported) :
        env[exported[i][1]].t = "tuple" /\ env[exported[i][1]].index = r}

\* What the claim says a leaf named old becomes.
Renamed(old) ==
    IF \E r \in 0..(MaxReg + 1), k \in 0..MaxWidth :
          old = VarName(r, k) /\ PairsOfReg(r) # {}
    THEN LET r == CHOOSE r \in 0..(MaxReg + 1) :
                     \E k \in 0..MaxWidth : old = VarName(r, k) /\ PairsOfReg(r) # {}
             k == CHOOSE k \in 0..MaxWidth : old = VarName(r, k)
             i == CHOOSE i \in PairsOfReg(r) : \A j \in PairsOfReg(r) : i <= j
         IN  exported[i][2] \o FormatInt(k)
    ELSE old

\* C8: after _rename_exports, a leaf that was named v{i}e{k}, i the
\* register of an exported before-name, is named after+k for the first
\* export pair of that register, and every other leaf keeps its name (the
\* prefix of register 1 does not match the leaves of register 10).
C8_RenameByRegisterPrefix ==
    status.pc = "returned" =>
        /\ Len(children) = Len(raw)
        /\ \A l \in 1..Len(raw) :
              /\ Len(children[l]) = Len(raw[l])
              /\ \A j \in 1..Len(raw[l]) : children[l][j] = Renamed(raw[l][j])

\* C8 witness: register 1 is exported and the two-digit register is not;
\* the leaf of register 1 was renamed and the two-digit one kept its name.
C8_Witness ==
    /\ status.pc = "returned"
    /\ Len(exported) = 2
    /\ PairsOfReg(1) # {} /\ PairsOfReg(MaxReg) = {}
    /\ raw = <<<<VarName(MaxReg, 1), VarName(1, 1)>>>>
    /\ children[1][1] = VarName(MaxReg, 1)
    /\ children[1][2] = exported[CHOOSE i \in PairsOfReg(1) : TRUE][2] \o <<"1">>

-----------------------------------------------------------------------------
(* mangle_names on its own: any tree and any excluded names *)

\* Names of variable leaves: pool-like, emitted, renamed and imported ones.
MangleLeafNames == {<<"a">>, <<"b">>, VarName(0, 0), <<"O", "0">>, <<"A">>}

RECURSIVE SeqsUpTo(_, _)
\* The non-empty sequences over S of length at most n.
SeqsUpTo(S, n) ==
    IF n = 0 THEN {}
    ELSE {<<x>> : x \in S}
         \cup SeqsUpTo(S, n - 1)
         \cup {<<x>> \o t : x \in S, t \in SeqsUpTo(S, n - 1)}

InitMangle ==
    /\ flavor = "yovec"
    /\ env = EmptyDict /\ index = 0 /\ exported = <<>> /\ letlog = <<>>
    /\ \E leaves \in SeqsUpTo(MangleLeafNames, MaxLeaves) :
          raw = <<leaves>> /\ children = <<leaves>>
    /\ status = [pc |-> "returned", exc |-> "none", at |-> "none", n |-> 0]
    /\ \E imp \in SUBSET {<<"A">>, <<"b">>}, exp \in SUBSET {<<"O", "0">>, <<"a">>} :
          margs = [imported |-> imp, exported |-> exp]
    /\ mangled = <<>>
    /\ EnvIdle /\ PoolIdle

MangleTree ==
    /\ status.pc = "returned"
    /\ mangled' = mangle_names(children, margs.imported, margs.exported)
    /\ status' = [status EXCEPT !.pc = "mangled"]
    /\ UNCHANGED <<flavor, env, index, children, exported, letlog, raw, margs>>
    /\ UNCHANGED <<envVars, poolVars>>

NextMangle == MangleTree

SpecMangle == InitMangle /\ [][NextMangle]_vars

Excluded == margs.imported \cup margs.exported

\* C4: mangle_names is an injective renaming that fixes the excluded set:
\* two leaves have the same name after mangling exactly when they had the
\* same name before, a leaf whose name is imported or exported keeps it,
\* and no other leaf is given an imported or exported name.
C4_MangleInjectiveFixingExcluded ==
    status.pc = "mangled" =>
        LET before == Flatten(children)
            after == Flatten(mangled)
        IN  /\ Len(after) = Len(before)
            /\ \A i \in 1..Len(before) : \A j \in 1..Len(before) :
                  (after[i] = after[j]) <=> (before[i] = before[j])
            /\ \A i \in 1..Len(before) :
                  IF before[i] \in Excluded
                  THEN after[i] = before[i]
                  ELSE after[i] \notin Excluded

\* C4 witness: the tree holds the excluded leaf b, the first name the pool
\* would generate, and another leaf twice, which was renamed to a.
C4_Witness ==
    /\ status.pc = "mangled"
    /\ <<"b">> \in Excluded
    /\ \E i, j, k \in 1..Len(Flatten(children)) :
          /\ Flatten(children)[i] = <<"b">>
          /\ j # k
          /\ Flatten(children)[j] = Flatten(children)[k]
          /\ Flatten(children)[j] \notin Excluded
          /\ Flatten(mangled)[j] = <<"a">>

-----------------------------------------------------------------------------
(* A Pool on its own: Pool.replace calls on any identifiers *)

\* Names that may be excluded: the short names of a two-letter alphabet and
\* an imported name.
PoolExcludable ==
    {<<"a">>, <<"b">>, <<"a", "a">>, <<"a", "b">>, <<"b", "a">>, <<"b", "b">>,
     <<"A">>}

\* Identifiers handed to Pool.replace.
PoolIdents == {<<"A">>, <<"b">>, VarName(0, 0), VarName(1, 0)}

InitPool ==
    /\ \E X \in SUBSET PoolExcludable : pool = PoolNew(X)
    /\ issued = <<>>
    /\ EnvIdle /\ LoopIdle /\ MangleIdle

Replace ==
    /\ \E name \in PoolIdents :
          LET r == PoolReplace(pool, name)
          IN  /\ pool' = r.pool
              /\ issued' = IF r.fresh
                           THEN Append(issued, [ident |-> name, name |-> r.name])
                           ELSE issued
    /\ UNCHANGED <<envVars, loopVars, mangleVars>>

NextPool == Replace

SpecPool == InitPool /\ [][NextPool]_vars

\* The position of a letter in the alphabet.
LetterIndex(c) == CHOOSE i \in 1..Len(AsciiLowercase) : AsciiLowercase[i] = c

\* The fixed sequence: shorter names first, and within a length the
\* lexicographically greater name first.
Precedes(a, b) ==
    \/ Len(a) < Len(b)
    \/ /\ Len(a) = Len(b)
       /\ \E i \in 1..Len(a) :
             /\ LetterIndex(a[i]) > LetterIndex(b[i])
             /\ \A j \in 1..(i - 1) : a[j] = b[j]

\* All names of exactly n letters.
NamesOfLength(n) == [1..n -> {Letters[i] : i \in 1..Len(Letters)}]

\* C9: the pool issues names shortest-first: the n-th distinct non-excluded
\* identifier receives the n-th non-excluded name of the fixed sequence
\* (all 1-letter names, then all 2-letter names, then all 3-letter names);
\* no name is issued while a non-excluded name before it in the sequence is
\* unissued, no name is issued twice, and no excluded name is issued.
C9_PoolIssuesShortestFirst ==
    /\ \A n \in 1..Len(issued) :
          /\ issued[n].ident \notin pool.excluded
          /\ issued[n].name \notin pool.excluded
          /\ issued[n].name \in NamesOfLength(Len(issued[n].name))
          /\ pool.replaced[issued[n].ident] = issued[n].name
          /\ \A m \in 1..(n - 1) :
                /\ issued[m].ident # issued[n].ident
                /\ Precedes(issued[m].name, issued[n].name)
          /\ \A len \in 1..Len(issued[n].name) : \A w \in NamesOfLength(len) :
                (Precedes(w, issued[n].name) /\ w \notin pool.excluded) =>
                    \E m \in 1..(n - 1) : issued[m].name = w
    /\ DOMAIN pool.replaced = {issued[n].ident : n \in 1..Len(issued)}

\* C9 witness: three identifiers were replaced by a 1-letter, a 2-letter
\* and a 3-letter name, with excluded names skipped on the way.
C9_Witness ==
    /\ Len(issued) = 3
    /\ Len(issued[1].name) = 1
    /\ Len(issued[2].name) = 2
    /\ Len(issued[3].name) = 3
    /\ pool.excluded # {}

====
